---- MODULE Spec2Model ----
(***************************************************************************)
(* Model of assets/js/main.js: the language switcher (initLanguageSwitcher),*)
(* the mobile-menu language buttons (initMobileMenu), init(), and the      *)
(* header scroll effect (initHeaderScroll), which has variables and        *)
(* specifications of its own.                                              *)
(*                                                                         *)
(* One page load is modelled: the markup the script finds (page), the      *)
(* origin's localStorage (store), the DOM state the handlers change, and   *)
(* the position of init() (pc, nextSw).  A call of localStorage may throw  *)
(* (storage disabled, quota exceeded): each call either returns or throws. *)
(* Every user event is                                                     *)
(* one action that runs the whole dispatch of that event: the target's own *)
(* listener and then, unless propagation was stopped, every document-level *)
(* click listener registered by the switchers.                             *)
(***************************************************************************)
EXTENDS Integers, Sequences, FiniteSets, TLC

\* ------------------------------------------------------------------ bounds
NumSwitchers == 2       \* .lang-switcher elements on the page
MaxItems == 2           \* .lang-switcher__item elements per switcher
MaxScrollY == 12        \* largest window.scrollY

\* --------------------------------------------------------------- constants
RtlLang == "ar-EG"
ScrollThreshold == 10       \* updateHeader: window.scrollY > 10
StorageKey == "preferredLanguage"
EventName == "languageChange"

NoValue == "<null>"         \* localStorage.getItem of an absent key
NoLabel == "<undefined>"    \* detail.label of an event dispatched without one
MarkupText == "<markup>"    \* text of .lang-switcher__current in the markup
NoDir == "<none>"           \* <html> without a dir attribute

\* data-lang of the options, in declaration order; a page declares a prefix
DeclOrder == <<"en-US", "ar-EG", "fr-FR">>
\* data-lang of the .mobile-menu__lang buttons
MobileLangs == {"ar-EG", "fr-FR"}
\* values the origin's store can hold when the page loads
StoreValues == {NoValue, "", "en-US", "ar-EG", "fr-FR"}

Switchers == 1..NumSwitchers
OptionLists == {SubSeq(DeclOrder, 1, n) : n \in 0..MaxItems}

\* data-label of the option whose data-lang is code
LabelOf(code) ==
  CASE code = "en-US" -> "English"
    [] code = "ar-EG" -> "Arabic"
    [] code = "fr-FR" -> "Francais"
    [] OTHER -> NoLabel

VARIABLES
  page,           \* the markup: items, hasLabel, hasCtl, hasMobile
  store,          \* value under "preferredLanguage", or NoValue
  pc,             \* position of init(): "load" | "switchers" | "rest" | "ready"
  nextSw,         \* next switcher of the forEach in initLanguageSwitcher
  registered,     \* switcher -> its listeners are registered
  langRegistered, \* the .mobile-menu__lang listeners are registered
  isOpen,         \* switcher -> has class is-open
  aria,           \* switcher -> aria-expanded of its toggle
  active,         \* switcher -> indices of its items with class is-active
  labelText,      \* switcher -> textContent of .lang-switcher__current
  dir,            \* dir attribute of <html>
  focus,          \* document.activeElement: <<s, i>> item i of s, <<s, 0>> toggle of s, <<0, 0>> other
  laterRan,       \* initVideoPlayer, initFormValidation, initTroubleToggle ran
  uncaught,       \* an exception propagated out of init()
  emitted,        \* languageChange events dispatched by the last handler
  observed,       \* what the listeners of the event of the last option click
                  \* read when it was dispatched; <<>> without such an event
  carried,        \* while init() runs: i when the last handler of the page load
                  \* before was the completed click on item i; 0 otherwise
  selected        \* <<s, i>>: the last handler was the click on item i of s and
                  \* ran to its end; <<0, 0>> otherwise

\* initHeaderScroll
VARIABLES
  hasHeader,      \* the page has a .header element
  headerInit,     \* initHeaderScroll has run
  ticking,        \* the closure variable ticking
  frames,         \* updateHeader callbacks requested and not yet run
  scrollY,        \* window.scrollY
  scrolled,       \* the header has class header--scrolled
  handled         \* "none": the listener saw no scroll event yet; "waiting": it
                  \* saw one since updateHeader last ran; "done": updateHeader
                  \* ran after the last one it saw

lvars == <<page, store, pc, nextSw, registered, langRegistered, isOpen,
           aria, active, labelText, dir, focus, laterRan, uncaught, emitted,
           observed, carried, selected>>

hvars == <<hasHeader, headerInit, ticking, frames, scrollY, scrolled, handled>>

vars == <<lvars, hvars>>

Elsewhere == <<0, 0>>
NoSelection == <<0, 0>>

Items == page.items
NumItems == Len(page.items)

\* --------------------------------------------------------------------- DOM
\* The pages the script can find: the options every switcher declares, whether
\* the switchers have a .lang-switcher__current, which switchers have both
\* toggle and menu, and whether the mobile menu and its button are there.
\* A page is complete (every optional element is there), or one switcher at
\* most has its controls.
Pages ==
  {p \in [items : OptionLists,
          hasLabel : BOOLEAN,
          hasCtl : [Switchers -> BOOLEAN],
          hasMobile : BOOLEAN] :
     \/ p.hasLabel /\ p.hasMobile /\ \A s \in Switchers : p.hasCtl[s]
     \/ Cardinality({s \in Switchers : p.hasCtl[s]}) <= 1}

\* The is-active marks of the markup: none, or one option.
MarkupActives(n) == {{}} \cup {{k} : k \in 1..n}
\* The dir attribute of <html> in the markup.
MarkupDirs == {NoDir}

\* The header as the pages of Spec have it: none, and the page is not scrolled.
HeaderIdle ==
  /\ hasHeader = FALSE
  /\ headerInit = FALSE
  /\ ticking = FALSE
  /\ frames = 0
  /\ scrollY = 0
  /\ scrolled = FALSE
  /\ handled = "none"

InitLanguage ==
  /\ page \in Pages
  /\ store \in StoreValues
  /\ pc = "load"
  /\ nextSw = 1
  /\ registered = [s \in Switchers |-> FALSE]
  /\ langRegistered = FALSE
  /\ isOpen = [s \in Switchers |-> FALSE]
  /\ aria = [s \in Switchers |-> "false"]
  /\ \E a \in MarkupActives(NumItems) : active = [s \in Switchers |-> a]
  /\ labelText = [s \in Switchers |-> MarkupText]
  /\ dir \in MarkupDirs
  /\ focus = Elsewhere
  /\ laterRan = FALSE
  /\ uncaught = FALSE
  /\ emitted = <<>>
  /\ selected = NoSelection
  /\ carried = 0
  /\ observed = <<>>

Init == InitLanguage /\ HeaderIdle

\* ------------------------------------------------------------------- init()
\* initMobileMenu: the language buttons get their listeners unless the menu
\* button or the menu is missing.
InitMobileMenu ==
  /\ pc = "load"
  /\ pc' = "switchers"
  /\ langRegistered' = page.hasMobile
  /\ UNCHANGED <<hvars, page, store, nextSw, registered, isOpen, aria, active,
                 labelText, dir, focus, laterRan, uncaught, emitted, selected,
                 carried, observed>>

\* Truthy as a test against null alone
TruthyNotNull(v) == v # NoValue

\* a non-empty string is truthy; null and "" are not
Truthy(v) == v # NoValue /\ v # ""

\* IndexOf as the lookup of the first item, whatever the code
IndexOfFirst(code) == IF NumItems > 0 THEN 1 ELSE 0

\* switcher.querySelector('[data-lang="code"]'): index of the item, 0 for null
IndexOf(code) ==
  IF \E k \in 1..NumItems : Items[k] = code
  THEN CHOOSE k \in 1..NumItems : Items[k] = code
  ELSE 0

\* RestoreActive without the removal of the other is-active marks
RestoreActiveKeep(act, saved) ==
  IF Truthy(saved)
  THEN IF IndexOf(saved) # 0 THEN act \cup {IndexOf(saved)} ELSE act
  ELSE IF NumItems > 0 THEN act \cup {1} ELSE act

\* the is-active marks of a switcher after its restore block
RestoreActive(act, saved) ==
  IF Truthy(saved)
  THEN IF IndexOf(saved) # 0 THEN {IndexOf(saved)} ELSE act
  ELSE IF NumItems > 0 THEN act \cup {1} ELSE act

\* RestoreLabel that also shows the label of the default option
RestoreLabelDefault(text, saved, hasLabel) ==
  IF ~hasLabel THEN text
  ELSE IF Truthy(saved)
       THEN IF IndexOf(saved) # 0 THEN LabelOf(saved) ELSE text
       ELSE IF NumItems > 0 THEN LabelOf(Items[1]) ELSE text

\* the current-label text of a switcher after its restore block
RestoreLabel(text, saved, hasLabel) ==
  IF Truthy(saved) /\ IndexOf(saved) # 0 /\ hasLabel THEN LabelOf(saved) ELSE text

\* the dir attribute of <html> after a restore block
RestoreDir(d, saved) ==
  IF Truthy(saved) /\ IndexOf(saved) # 0 /\ saved = RtlLang THEN "rtl" ELSE d

\* One iteration of switchers.forEach in initLanguageSwitcher: return early
\* without toggle or menu; otherwise register the listeners, read the store
\* (readThrows: getItem throws and the exception leaves init()) and restore.
SetupSwitcher(readThrows) ==
  /\ pc = "switchers"
  /\ nextSw <= NumSwitchers
  /\ LET s == nextSw IN
     IF ~page.hasCtl[s]
     THEN /\ nextSw' = s + 1
          /\ UNCHANGED <<pc, registered, active, labelText, dir, uncaught>>
     ELSE /\ registered' = [registered EXCEPT ![s] = TRUE]
          /\ IF readThrows
             THEN /\ uncaught' = TRUE
                  /\ pc' = "ready"
                  /\ UNCHANGED <<nextSw, active, labelText, dir>>
             ELSE /\ active' = [active EXCEPT ![s] = RestoreActive(active[s], store)]
                  /\ labelText' = [labelText EXCEPT
                        ![s] = RestoreLabel(labelText[s], store, page.hasLabel)]
                  /\ dir' = RestoreDir(dir, store)
                  /\ nextSw' = s + 1
                  /\ UNCHANGED <<pc, uncaught>>
  /\ UNCHANGED <<hvars, page, store, langRegistered, isOpen, aria, focus,
                 laterRan, emitted, selected, observed>>
  /\ carried' = IF page.hasCtl[nextSw] /\ readThrows THEN 0 ELSE carried

\* The rest of init() after initLanguageSwitcher returned.
InitRest ==
  /\ pc = "switchers"
  /\ nextSw > NumSwitchers
  /\ pc' = "ready"
  /\ laterRan' = TRUE
  /\ UNCHANGED <<hvars, page, store, nextSw, registered, langRegistered, isOpen,
                 aria, active, labelText, dir, focus, uncaught, emitted,
                 selected, observed>>
  /\ carried' = 0

\* ------------------------------------------------------------- user events
\* items.forEach(i => i.classList.remove('is-active')); item.classList.add('is-active')
SelectActive(act, i) == {i}

\* the dir attribute the item click handler sets for lang
DirFor(lang) == IF lang = RtlLang THEN "rtl" ELSE "ltr"

\* DocClickOpen with classList.toggle in the place of classList.remove
DocClickOpenToggles(open, t) ==
  [s \in Switchers |-> IF registered[s] /\ s # t THEN ~open[s] ELSE open[s]]

\* The document click listeners of the registered switchers, for a click whose
\* target lies in the subtree of switcher t (t = 0: in no switcher): every
\* other registered switcher loses is-open.
DocClickOpen(open, t) ==
  [s \in Switchers |-> IF registered[s] /\ s # t THEN FALSE ELSE open[s]]

DocClickAria(ar, t) ==
  [s \in Switchers |-> IF registered[s] /\ s # t THEN "false" ELSE ar[s]]

\* Event without the label, as the mobile-menu buttons dispatch it
EventLangOnly(lang, label) == [lang |-> lang, label |-> NoLabel]

\* the detail of a languageChange event
Event(lang, label) == [lang |-> lang, label |-> label]

\* The page as a listener of languageChange reads it during dispatchEvent in
\* the click handler of item i of switcher s: the statements before the
\* dispatch have run, the statements after it have not.
AtDispatch(s, i) ==
  [active |-> SelectActive(active[s], i),
   label |-> IF page.hasLabel THEN LabelOf(Items[i]) ELSE labelText[s],
   store |-> Items[i],
   open |-> FALSE,
   dir |-> dir]

\* Click on item i of switcher s.  threw: setItem throws and the rest of the
\* handler is skipped.  The click bubbles to the document listeners either way.
ItemClick(s, i, threw) ==
  /\ pc = "ready"
  /\ registered[s]
  /\ i \in 1..NumItems
  /\ LET lang == Items[i]
         label == LabelOf(lang)
     IN /\ emitted' = IF threw THEN <<>> ELSE <<Event(lang, label)>>
        /\ labelText' = [labelText EXCEPT
              ![s] = IF page.hasLabel THEN label ELSE @]
        /\ active' = [active EXCEPT ![s] = SelectActive(@, i)]
        /\ store' = IF threw THEN store ELSE lang
        /\ isOpen' = DocClickOpen(IF threw THEN isOpen
                                  ELSE [isOpen EXCEPT ![s] = FALSE], s)
        /\ aria' = DocClickAria(IF threw THEN aria
                                ELSE [aria EXCEPT ![s] = "false"], s)
        /\ dir' = IF threw THEN dir ELSE DirFor(lang)
        /\ selected' = IF threw THEN NoSelection ELSE <<s, i>>
        /\ carried' = carried
        /\ observed' = IF threw THEN <<>> ELSE <<AtDispatch(s, i)>>
  /\ UNCHANGED <<hvars, page, pc, nextSw, registered, langRegistered, focus,
                 laterRan, uncaught>>

\* BoolAttr that writes "false" whatever the state
BoolAttrFalse(b) == "false"

\* String(isOpen) as setAttribute stores it
BoolAttr(b) == IF b THEN "true" ELSE "false"

\* ToggleClick without stopPropagation: the click reaches the document listeners
ToggleClickBubbles(s) ==
  /\ pc = "ready"
  /\ registered[s]
  /\ isOpen' = DocClickOpen([isOpen EXCEPT ![s] = ~@], s)
  /\ aria' = DocClickAria([aria EXCEPT ![s] = BoolAttr(~isOpen[s])], s)
  /\ focus' = IF ~isOpen[s] /\ NumItems > 0 THEN <<s, 1>> ELSE focus
  /\ emitted' = <<>>
  /\ selected' = NoSelection
  /\ carried' = carried
  /\ observed' = <<>>
  /\ UNCHANGED <<hvars, page, store, pc, nextSw, registered, langRegistered,
                 active, labelText, dir, laterRan, uncaught>>

\* Click on the toggle of switcher s.  stopPropagation: no document listener runs.
ToggleClick(s) ==
  /\ pc = "ready"
  /\ registered[s]
  /\ isOpen' = [isOpen EXCEPT ![s] = ~@]
  /\ aria' = [aria EXCEPT ![s] = BoolAttr(~isOpen[s])]
  /\ focus' = IF ~isOpen[s] /\ NumItems > 0 THEN <<s, 1>> ELSE focus
  /\ emitted' = <<>>
  /\ selected' = NoSelection
  /\ carried' = carried
  /\ observed' = <<>>
  /\ UNCHANGED <<hvars, page, store, pc, nextSw, registered, langRegistered,
                 active, labelText, dir, laterRan, uncaught>>

Keys == {"ArrowDown", "ArrowUp", "Escape", "Tab", "Home"}

\* NextIndex as a move that stops at the last option
NextIndexNoWrap(i, n) == IF i < n THEN i + 1 ELSE i

\* (currentIndex + 1) % length, on 1-based indices
NextIndex(i, n) == (((i - 1) + 1) % n) + 1
\* (currentIndex - 1 + length) % length, on 1-based indices
PrevIndex(i, n) == (((i - 1) - 1 + n) % n) + 1

\* the option that holds the focus after k ArrowDown presses from option i
RECURSIVE DownTimes(_, _, _)
DownTimes(i, n, k) == IF k = 0 THEN i ELSE DownTimes(NextIndex(i, n), n, k - 1)

\* the option that holds the focus after k ArrowUp presses from option i
RECURSIVE UpTimes(_, _, _)
UpTimes(i, n, k) == IF k = 0 THEN i ELSE UpTimes(PrevIndex(i, n), n, k - 1)

\* where the browser's default action of Tab can move the focus from item i of s
TabTargets(s, i) ==
  {Elsewhere, <<s, 0>>} \cup (IF i < NumItems THEN {<<s, i + 1>>} ELSE {})

\* keydown in the menu of switcher s, the focus being on one of its items
KeyDown(s, key) ==
  /\ pc = "ready"
  /\ registered[s]
  /\ focus[1] = s
  /\ focus[2] \in 1..NumItems
  /\ LET i == focus[2]
         closes == key \in {"Escape", "Tab"}
     IN /\ isOpen' = IF closes THEN [isOpen EXCEPT ![s] = FALSE] ELSE isOpen
        /\ aria' = IF closes THEN [aria EXCEPT ![s] = "false"] ELSE aria
        /\ CASE key = "ArrowDown" -> focus' = <<s, NextIndex(i, NumItems)>>
             [] key = "ArrowUp" -> focus' = <<s, PrevIndex(i, NumItems)>>
             [] key = "Escape" -> focus' = <<s, 0>>
             [] key = "Tab" -> focus' \in TabTargets(s, i)
             [] OTHER -> focus' = focus
  /\ emitted' = <<>>
  /\ selected' = NoSelection
  /\ carried' = carried
  /\ observed' = <<>>
  /\ UNCHANGED <<hvars, page, store, pc, nextSw, registered, langRegistered,
                 active, labelText, dir, laterRan, uncaught>>

\* Click on an element that has no click listener of its own, inside the
\* subtree of switcher t or (t = 0) outside every switcher.
DocClick(t) ==
  /\ pc = "ready"
  /\ isOpen' = DocClickOpen(isOpen, t)
  /\ aria' = DocClickAria(aria, t)
  /\ emitted' = <<>>
  /\ selected' = NoSelection
  /\ carried' = carried
  /\ observed' = <<>>
  /\ UNCHANGED <<hvars, page, store, pc, nextSw, registered, langRegistered,
                 active, labelText, dir, focus, laterRan, uncaught>>

\* Click on the .mobile-menu__lang button of language lang; the button lies
\* outside every switcher and the click bubbles to the document.
MobileLangClick(lang, threw) ==
  /\ pc = "ready"
  /\ langRegistered
  /\ store' = IF threw THEN store ELSE lang
  /\ emitted' = IF threw THEN <<>> ELSE <<Event(lang, NoLabel)>>
  /\ selected' = NoSelection
  /\ carried' = carried
  /\ observed' = <<>>
  /\ isOpen' = DocClickOpen(isOpen, 0)
  /\ aria' = DocClickAria(aria, 0)
  /\ UNCHANGED <<hvars, page, pc, nextSw, registered, langRegistered, active,
                 labelText, dir, focus, laterRan, uncaught>>

\* The user loads a page of the site with the same switchers again: the DOM is
\* the markup's again, the store is kept.
Reload ==
  /\ pc = "ready"
  /\ pc' = "load"
  /\ nextSw' = 1
  /\ registered' = [s \in Switchers |-> FALSE]
  /\ langRegistered' = FALSE
  /\ isOpen' = [s \in Switchers |-> FALSE]
  /\ aria' = [s \in Switchers |-> "false"]
  /\ \E a \in MarkupActives(NumItems) : active' = [s \in Switchers |-> a]
  /\ labelText' = [s \in Switchers |-> MarkupText]
  /\ dir' \in MarkupDirs
  /\ focus' = Elsewhere
  /\ laterRan' = FALSE
  /\ uncaught' = FALSE
  /\ emitted' = <<>>
  /\ selected' = NoSelection
  /\ carried' = selected[2]
  /\ observed' = <<>>
  /\ UNCHANGED <<hvars, page, store>>

\* ------------------------------------------------------------ header scroll
\* A page without language switcher and mobile menu, nothing stored.
BarePage ==
  [items |-> <<>>, hasLabel |-> FALSE,
   hasCtl |-> [s \in Switchers |-> FALSE], hasMobile |-> FALSE]

\* The page with or without a header, at any scroll position, the header with
\* or without header--scrolled in the markup.
InitHeader ==
  /\ InitLanguage
  /\ page = BarePage
  /\ store = NoValue
  /\ hasHeader \in BOOLEAN
  /\ headerInit = FALSE
  /\ ticking = FALSE
  /\ frames = 0
  /\ scrollY \in 0..MaxScrollY
  /\ scrolled \in BOOLEAN
  /\ handled = "none"

\* initHeaderScroll: without a header nothing is registered.
InitHeaderScroll ==
  /\ ~headerInit
  /\ headerInit' = TRUE
  /\ ticking' = FALSE
  /\ UNCHANGED <<hasHeader, frames, scrollY, scrolled, handled>>
  /\ UNCHANGED lvars

\* Scrolled with the threshold itself counted as scrolled
ScrolledFromThreshold(y) == y >= ScrollThreshold

\* window.scrollY > 10
Scrolled(y) == y > ScrollThreshold

\* A scroll event at the new position y.  The listener, if registered,
\* requests one updateHeader frame unless one is requested already.
ScrollEvent(y) ==
  /\ y # scrollY
  /\ scrollY' = y
  /\ IF headerInit /\ hasHeader
     THEN /\ handled' = "waiting"
          /\ IF ~ticking
             THEN frames' = frames + 1 /\ ticking' = TRUE
             ELSE UNCHANGED <<frames, ticking>>
     ELSE UNCHANGED <<handled, frames, ticking>>
  /\ UNCHANGED <<hasHeader, headerInit, scrolled>>
  /\ UNCHANGED lvars

\* The browser runs a requested animation frame callback: updateHeader.
AnimationFrame ==
  /\ frames > 0
  /\ frames' = frames - 1
  /\ scrolled' = Scrolled(scrollY)
  /\ ticking' = FALSE
  /\ handled' = "done"
  /\ UNCHANGED <<hasHeader, headerInit, scrollY>>
  /\ UNCHANGED lvars

NextHeader ==
  \/ InitHeaderScroll
  \/ \E y \in 0..MaxScrollY : ScrollEvent(y)
  \/ AnimationFrame

\* requestAnimationFrame: the browser runs a requested callback before its
\* next repaint.
SpecHeader == InitHeader /\ [][NextHeader]_vars /\ WF_vars(AnimationFrame)

\* ----------------------------------------------------------------- the page
Next ==
  \/ InitMobileMenu
  \/ \E readThrows \in BOOLEAN : SetupSwitcher(readThrows)
  \/ InitRest
  \/ \E s \in Switchers, i \in 1..MaxItems, threw \in BOOLEAN : ItemClick(s, i, threw)
  \/ \E s \in Switchers : ToggleClick(s)
  \/ \E s \in Switchers, key \in Keys : KeyDown(s, key)
  \/ \E t \in 0..NumSwitchers : DocClick(t)
  \/ \E lang \in MobileLangs, threw \in BOOLEAN : MobileLangClick(lang, threw)
  \/ Reload

Spec == Init /\ [][Next]_vars

\* The page loads alone: init() from its start to its end, no user event.
\* Every page load of Spec is one of these.
NextLoad ==
  \/ InitMobileMenu
  \/ \E readThrows \in BOOLEAN : SetupSwitcher(readThrows)
  \/ InitRest

SpecLoad == Init /\ [][NextLoad]_vars

\* A page load in which the user opens, closes and walks the menus, clicks
\* elsewhere and uses the mobile-menu language buttons, from every markup and
\* every stored value, selecting no option of a selector.
NextMenu ==
  \/ NextLoad
  \/ \E s \in Switchers : ToggleClick(s)
  \/ \E s \in Switchers, key \in Keys : KeyDown(s, key)
  \/ \E t \in 0..NumSwitchers : DocClick(t)
  \/ \E lang \in MobileLangs, threw \in BOOLEAN : MobileLangClick(lang, threw)

SpecMenu == Init /\ [][NextMenu]_vars

\* ================================================================== claims

\* C1: when the handler of a click on the declared option (code c, label l) of
\* a selector has run to its end (setItem returned), that option is the only
\* active one of the selector, the current label is l, the stored preference
\* is c, the selector is closed, and exactly one languageChange event was
\* dispatched, with detail {lang: c, label: l}.
C1_SelectionEffects ==
  \A s \in Switchers, i \in 1..NumItems :
    selected = <<s, i>> =>
      /\ active[s] = {i}
      /\ page.hasLabel => labelText[s] = LabelOf(Items[i])
      /\ store = Items[i]
      /\ ~isOpen[s]
      /\ emitted = <<[lang |-> Items[i], label |-> LabelOf(Items[i])]>>

\* C1 witness: the second option was selected in the first selector, which
\* is closed and shows the label of that option.
C1_Witness ==
  /\ selected = <<1, 2>>
  /\ page.hasLabel
  /\ active[1] = {2}
  /\ labelText[1] = LabelOf(Items[2])
  /\ store = Items[2]
  /\ ~isOpen[1]
  /\ emitted = <<[lang |-> Items[2], label |-> LabelOf(Items[2])]>>

\* C2 (as claimed): after every click on a declared option of code c the dir
\* attribute of the root is "rtl" if c is "ar-EG" and "ltr" otherwise.
C2_DirAfterEverySelection ==
  [][\A s \in Switchers, i \in 1..NumItems, threw \in BOOLEAN :
       ItemClick(s, i, threw) =>
         dir' = (IF Items[i] = "ar-EG" THEN "rtl" ELSE "ltr")]_vars

\* C3 (as claimed): at most one option of a selector is marked active, in
\* every state.
C3_AtMostOneActive ==
  \A s \in Switchers : Cardinality(active[s]) <= 1

\* C4 (as claimed): a selector is closed right after an option selection, an
\* Escape or Tab key press in its menu, and a click outside it that reaches the
\* document listener, whatever it was before.
C4_ClosedAfterEvent ==
  [][\A s \in Switchers :
       \/ \E i \in 1..MaxItems, threw \in BOOLEAN : ItemClick(s, i, threw)
       \/ KeyDown(s, "Escape")
       \/ KeyDown(s, "Tab")
       \/ registered[s] /\ \E t \in (0..NumSwitchers) \ {s} : DocClick(t)
       => ~isOpen'[s]]_vars

\* C5 (as claimed): a click whose target lies outside the subtree of an open
\* selector closes it, the toggle or an option of another selector included
\* (so that no two selectors are open together).
C5_OutsideClickCloses ==
  [][\A s \in Switchers :
       /\ isOpen[s]
       /\ \/ \E t \in (0..NumSwitchers) \ {s} : DocClick(t)
          \/ \E t \in Switchers \ {s} : ToggleClick(t)
          \/ \E t \in Switchers \ {s}, i \in 1..MaxItems, threw \in BOOLEAN :
               ItemClick(t, i, threw)
          \/ \E lang \in MobileLangs, threw \in BOOLEAN : MobileLangClick(lang, threw)
       => ~isOpen'[s]]_vars

\* C6 (as claimed): when setItem throws during an option selection every other
\* effect of the selection still happens: the option is the only active one,
\* the label is updated, the selector is closed, the root direction is set and
\* the languageChange event is dispatched; only the store is left as it was.
C6_WriteFailureIsSilent ==
  [][\A s \in Switchers, i \in 1..NumItems :
       ItemClick(s, i, TRUE) =>
         /\ active'[s] = {i}
         /\ page.hasLabel => labelText'[s] = LabelOf(Items[i])
         /\ ~isOpen'[s]
         /\ dir' = (IF Items[i] = "ar-EG" THEN "rtl" ELSE "ltr")
         /\ emitted' = <<[lang |-> Items[i], label |-> LabelOf(Items[i])]>>
         /\ store' = store]_vars

\* The forEach iteration of initLanguageSwitcher for switcher s, which has its
\* toggle and menu, getItem throwing or not.
RestoreStep(s, readThrows) ==
  /\ pc = "switchers"
  /\ nextSw = s
  /\ page.hasCtl[s]
  /\ SetupSwitcher(readThrows)

\* C7 (as claimed): when getItem throws during setup the read counts as an
\* absent value: the selector has its listeners and its first option active,
\* no exception leaves setup, and setup goes on with the next selector (and
\* then with the later behaviours).
C7_ReadFailureIsAbsence ==
  [][\A s \in Switchers :
       RestoreStep(s, TRUE) =>
         /\ registered'[s]
         /\ NumItems > 0 => 1 \in active'[s]
         /\ ~uncaught'
         /\ pc' = "switchers"
         /\ nextSw' = s + 1]_vars

\* C8: restore with a stored code that option k of the selector declares makes
\* option k the only active one and shows its label; the store is not written,
\* no event is dispatched and no selector is opened or closed.
C8_RestoreSaved ==
  [][\A s \in Switchers, k \in 1..MaxItems :
       (k <= NumItems /\ Items[k] = store /\ RestoreStep(s, FALSE)) =>
         /\ active'[s] = {k}
         /\ page.hasLabel => labelText'[s] = LabelOf(Items[k])
         /\ store' = store
         /\ emitted' = <<>>
         /\ isOpen' = isOpen]_vars

\* C8 witness: the first selector was restored from the stored code of its
\* second option, the markup having marked the first one active.
C8_Witness ==
  /\ pc = "switchers"
  /\ nextSw = 2
  /\ registered[1]
  /\ NumItems >= 2
  /\ store = Items[2]
  /\ active[1] = {2}
  /\ active[2] = {1}
  /\ page.hasLabel
  /\ labelText[1] = LabelOf(Items[2])
  /\ emitted = <<>>

\* C9: restore with no stored value marks the first declared option of the
\* selector active and changes nothing else: labels, store, root direction,
\* open state and the marks of the other selectors stay, no event is dispatched.
C9_RestoreDefault ==
  [][\A s \in Switchers :
       (store = NoValue /\ RestoreStep(s, FALSE)) =>
         /\ active'[s] = active[s] \cup (IF NumItems > 0 THEN {1} ELSE {})
         /\ \A t \in Switchers \ {s} : active'[t] = active[t]
         /\ labelText' = labelText
         /\ store' = store
         /\ dir' = dir
         /\ isOpen' = isOpen
         /\ emitted' = <<>>]_vars

\* C9 witness: the first selector was restored with an empty store from a
\* markup that marks no option: its first option is active, its label is the
\* markup's.
C9_Witness ==
  /\ pc = "switchers"
  /\ nextSw = 2
  /\ registered[1]
  /\ store = NoValue
  /\ NumItems >= 2
  /\ page.hasLabel
  /\ active[1] = {1}
  /\ active[2] = {}
  /\ labelText[1] = MarkupText
  /\ dir = NoDir

\* C10 (as claimed): once the selectors are set up, every selector (with its
\* toggle and menu) that has an option has an active option: the one matching
\* the stored value when the store holds a value, whatever it is, and the
\* first declared one otherwise.
C10_ActiveAfterSetup ==
  (pc = "switchers" /\ nextSw > NumSwitchers) =>
    \A s \in Switchers :
      (page.hasCtl[s] /\ NumItems > 0) =>
        IF store # NoValue
        THEN \E k \in 1..NumItems : Items[k] = store /\ active[s] = {k}
        ELSE active[s] = {1}

\* C10 (amended): every selector whose restore block ran and that has an option
\* has, when the stored value is the code of its option k, option k as its only
\* active option, and, when the store holds no value or the empty string, its
\* first option among its active options.
C10_ActiveAfterRestore ==
  pc = "switchers" =>
    \A s \in 1..(nextSw - 1) :
      (page.hasCtl[s] /\ NumItems > 0) =>
        /\ \A k \in 1..NumItems : Items[k] = store => active[s] = {k}
        /\ store \in {NoValue, ""} => 1 \in active[s]

\* C10 witness: every selector is set up; the store holds the code of the
\* second option and every selector shows it as its only active option.
C10_Witness ==
  /\ pc = "switchers"
  /\ nextSw > NumSwitchers
  /\ NumItems >= 2
  /\ store = Items[2]
  /\ \A s \in Switchers : page.hasCtl[s] /\ active[s] = {2}

\* C11: round trip across page loads: when the last handler of a page load was
\* the completed selection of option i (which stored its code) and the next
\* page load sets up its selectors, every selector whose restore block ran has
\* option i as its only active option and shows the label of option i, and the
\* store still holds the code of option i.
C11_RoundTrip ==
  \A i \in 1..NumItems :
    (pc = "switchers" /\ carried = i) =>
      /\ store = Items[i]
      /\ \A s \in 1..(nextSw - 1) :
           page.hasCtl[s] =>
             /\ active[s] = {i}
             /\ page.hasLabel => labelText[s] = LabelOf(Items[i])

\* C11 witness: the second option was selected in the page load before; every
\* selector of this load is set up and shows it, its label included.
C11_Witness ==
  /\ pc = "switchers"
  /\ nextSw > NumSwitchers
  /\ carried = 2
  /\ page.hasLabel
  /\ \A s \in Switchers :
       page.hasCtl[s] /\ active[s] = {2} /\ labelText[s] = LabelOf(Items[2])

\* C12 (as claimed): when a selector has completed the selection of option i,
\* every selector of the page (set up with the same options) has option i as
\* its only active option and shows the label of option i.
C12_InstancesConverge ==
  \A s \in Switchers, i \in 1..NumItems :
    selected = <<s, i>> =>
      \A t \in Switchers :
        registered[t] =>
          /\ active[t] = {i}
          /\ page.hasLabel => labelText[t] = LabelOf(Items[i])

\* C13: with the focus on option i of a menu of N >= 1 options, ArrowDown
\* moves the focus to the next option (the first after the last) and ArrowUp to
\* the previous one (the last before the first); N ArrowDown presses, N ArrowUp
\* presses, and an ArrowDown followed by an ArrowUp, all lead back to option i.
C13_ArrowKeysCycle ==
  [][\A s \in Switchers :
       LET i == focus[2]
           N == NumItems
       IN /\ KeyDown(s, "ArrowDown") =>
               /\ focus' = <<s, IF i = N THEN 1 ELSE i + 1>>
               /\ DownTimes(i, N, N) = i
               /\ PrevIndex(focus'[2], N) = i
          /\ KeyDown(s, "ArrowUp") =>
               /\ focus' = <<s, IF i = 1 THEN N ELSE i - 1>>
               /\ UpTimes(i, N, N) = i
               /\ NextIndex(focus'[2], N) = i]_vars

\* C13 witness: the focus is on the last of at least two options of an open
\* menu, where ArrowDown wraps to the first.
C13_Witness ==
  /\ pc = "ready"
  /\ NumItems >= 2
  /\ isOpen[1]
  /\ focus = <<1, NumItems>>

\* C14: a click on the toggle of a selector flips its isOpen, and a toggle click
\* or a key press on another selector leaves it as it is, so that two
\* consecutive clicks on the toggle, with no other event on the selector in
\* between, return isOpen to its value before the first; a click that opens a
\* selector with an option moves the focus to its first option.
C14_ToggleTwice ==
  [][\A s \in Switchers :
       /\ ToggleClick(s) =>
            /\ isOpen'[s] = ~isOpen[s]
            /\ (isOpen'[s] /\ NumItems >= 1) => focus' = <<s, 1>>
       /\ \A t \in Switchers \ {s} :
            (ToggleClick(t) \/ \E key \in Keys : KeyDown(t, key)) =>
              isOpen'[s] = isOpen[s]]_vars

\* C14 witness: a click on the toggle opened the second selector and moved the
\* focus to its first option.
C14_Witness ==
  /\ pc = "ready"
  /\ NumItems >= 1
  /\ isOpen[2]
  /\ aria[2] = "true"
  /\ focus = <<2, 1>>

\* C15: the aria-expanded attribute of the toggle of every selector is "true"
\* exactly when the selector has the is-open mark and "false" exactly when it
\* has not, in every state, so after every event a selector handles.
C15_AriaMirrorsOpen ==
  \A s \in Switchers :
    /\ aria[s] = "true" <=> isOpen[s]
    /\ aria[s] = "false" <=> ~isOpen[s]

\* C15 witness: the first selector was closed with Escape (the focus is on its
\* toggle) while the second one is open; the attributes say so.
C15_Witness ==
  /\ pc = "ready"
  /\ focus = <<1, 0>>
  /\ ~isOpen[1]
  /\ aria[1] = "false"
  /\ isOpen[2]
  /\ aria[2] = "true"

\* C16 (as claimed): restore with a stored value that no option of the selector
\* declares leaves the active marks, the labels, the root direction and the
\* store unchanged and dispatches no event.
C16_UndeclaredIsNoOp ==
  [][\A s \in Switchers :
       (/\ store # NoValue
        /\ \A k \in 1..NumItems : Items[k] # store
        /\ RestoreStep(s, FALSE)) =>
         /\ active' = active
         /\ labelText' = labelText
         /\ dir' = dir
         /\ store' = store
         /\ emitted' = <<>>]_vars

\* C17: a toggle click, an ArrowDown, ArrowUp, Escape or Tab key press and an
\* outside click leave the active marks, the labels, the stored preference and
\* the root direction unchanged and dispatch no languageChange event, whether
\* the selector is open or closed; an outside click on a closed selector
\* leaves it closed.
C17_OnlySelectionChangesSelection ==
  [][\A s \in Switchers :
       /\ (\/ ToggleClick(s)
           \/ \E key \in {"ArrowDown", "ArrowUp", "Escape", "Tab"} : KeyDown(s, key)
           \/ \E t \in (0..NumSwitchers) \ {s} : DocClick(t)) =>
            /\ active' = active
            /\ labelText' = labelText
            /\ store' = store
            /\ dir' = dir
            /\ emitted' = <<>>
       /\ (~isOpen[s] /\ \E t \in (0..NumSwitchers) \ {s} : DocClick(t)) =>
            ~isOpen'[s]]_vars

\* C17 witness: the second selector was closed with Escape (the focus is on
\* its toggle): the stored code, the mark set up at load and the label of the
\* markup are still there, and the handler dispatched nothing.
C17_Witness ==
  /\ pc = "ready"
  /\ store = "fr-FR"
  /\ NumItems = 2
  /\ focus = <<2, 0>>
  /\ ~isOpen[2]
  /\ active[2] = {1}
  /\ labelText[2] = MarkupText
  /\ emitted = <<>>

\* C18 (as claimed): when the languageChange event of an option selection is
\* delivered, the listeners read the new state: the selected option the only
\* active one, its label, its code in the store, the selector closed, and the
\* root direction of the selected code.
C18_StateAtDispatch ==
  \A s \in Switchers, i \in 1..NumItems :
    selected = <<s, i>> =>
      /\ Len(observed) = 1
      /\ observed[1].active = {i}
      /\ page.hasLabel => observed[1].label = LabelOf(Items[i])
      /\ observed[1].store = Items[i]
      /\ ~observed[1].open
      /\ observed[1].dir = (IF Items[i] = "ar-EG" THEN "rtl" ELSE "ltr")

\* C19 (as claimed): once setup has run, and after every language selection by
\* an option or by a mobile-menu button, the root direction is "rtl" exactly
\* when the stored preference is "ar-EG"; and every change of the stored
\* preference comes with one languageChange event that carries the new code.
C19_DirFollowsPreference ==
  [][/\ (pc' = "ready" /\ ~uncaught') => (dir' = "rtl" <=> store' = "ar-EG")
     /\ store' # store => (Len(emitted') = 1 /\ emitted'[1].lang = store')]_vars

\* C20: for every interleaving of scroll events and animation frames at most
\* one updateHeader callback is requested and not yet run, ticking is true
\* exactly while one is; after updateHeader has run with no scroll event since,
\* the header has header--scrolled if and only if scrollY > 10; and every
\* scroll event the listener sees is followed by a run of updateHeader.
C20_HeaderThrottle ==
  /\ [](/\ frames <= 1
        /\ ticking <=> frames = 1
        /\ handled = "done" => (scrolled <=> scrollY > 10))
  /\ (handled = "waiting") ~> (handled = "done")

\* C20 witness: scroll events came while a frame was requested; the one frame
\* has run and the header of the page, scrolled past the threshold by one,
\* carries the mark it did not have in the markup.
C20_Witness ==
  /\ hasHeader
  /\ handled = "done"
  /\ ~ticking
  /\ frames = 0
  /\ scrollY = 11
  /\ scrolled

====
